---- MODULE Spec2Model ----
(***************************************************************************)
(* A model of the canonic path library: the arena-backed segment list      *)
(* (packed_list.rs), the parser (parser.rs), the renderer (builder.rs) and *)
(* the Path operations join, parent, resolve and diff (path.rs).           *)
(*                                                                         *)
(* Characters are one-character strings, a text or a segment is a sequence *)
(* of characters.  Arena handles are the Rust indices (0-based); node i of *)
(* the Rust Vec is nodes[i + 1] here.                                      *)
(*                                                                         *)
(* len() subtracts the length of the free list from that of the arena.     *)
(* When the free list is the longer one the outcome depends on the build   *)
(* profile: the program aborts (overflow checks) or the length wraps.      *)
(* Each operation comes as X_unchecked (the code with wrapping len()),     *)
(* X_overflows (a len() it evaluates overflows) and X under env, which     *)
(* aborts unless the run has already shown that len() wraps.               *)
(***************************************************************************)
EXTENDS Integers, Sequences, FiniteSets, TLC

VARIABLES
    pc,        \* position of the driver in the current scenario
    text,      \* parser scenario: the input text
    parsed,    \* parser scenario: parse_path(text)
    rendered,  \* parser scenario: build_path of the parsed Path
    reparsed,  \* parser scenario: parse_path(rendered)
    a,         \* path scenario: the Path the next operation is called on (self)
    b,         \* path scenario: the Path passed as argument (other)
    rec,       \* path scenario: record of the last operation (inputs and result)
    n,         \* path scenario: number of operations the run may still apply
    env        \* path scenario: the build, the home directory, and whether the
               \* run has shown that the build has no overflow checks

vars == <<pc, text, parsed, rendered, reparsed, a, b, rec, n, env>>

(***************************************************************************)
(* Bounds                                                                  *)
(***************************************************************************)
\* longest parser input, counted in tokens of ParseTokens
MaxTokens == 5
\* Spec: most parts (prefix, drive, segments) of a text, most operations in a run
MaxParts == 2
MaxOps == 2
\* SpecUnary: the same for the single Path
MaxUnaryParts == 3
MaxUnaryOps == 3
\* SpecDeep: the same for the Path and for its short argument
MaxDeepParts == 3
MaxDeepArgParts == 2
MaxDeepOps == 5
\* SpecBase: most parts of the Path and of the name, most operations in a run
MaxBaseParts == 4
MaxNameParts == 2
MaxBaseOps == 2

(***************************************************************************)
(* packed_list.rs: PathSegmentList                                         *)
(***************************************************************************)
\* Option<usize>::None
NoIdx == 0 - 1

\* Node::default(): empty value, no links (core::mem::take leaves this behind)
DefaultNode == [value |-> <<>>, prev |-> NoIdx, next |-> NoIdx]

ListNew == [nodes |-> <<>>, head |-> NoIdx, tail |-> NoIdx, free |-> <<>>]

\* usize arithmetic wraps in a build without overflow checks; the model keeps
\* the low 30 bits, the counts it compares a length with being small
UsizeModulus == 2^30

\* len(): nodes.len() - free_list.len(), wrapping
ListLen(l) == (Len(l.nodes) - Len(l.free)) % UsizeModulus

\* len() when the free list is longer than the arena: the subtraction
\* overflows, which aborts the program in a build with overflow checks
LenOverflows(l) == Len(l.nodes) < Len(l.free)

\* self.nodes.get(i).is_some()
HasNode(l, i) == i >= 0 /\ i < Len(l.nodes)

NodeAt(l, i) == l.nodes[i + 1]

\* free(): the handle goes on the free list, the node and its links stay
ListFree(l, i) ==
    IF i < Len(l.nodes) THEN [l EXCEPT !.free = Append(l.free, i)] ELSE l

ListPush(l, v) ==
    LET reuse  == Len(l.free) > 0
        index  == IF reuse THEN l.free[Len(l.free)] ELSE Len(l.nodes)
        free1  == IF reuse THEN SubSeq(l.free, 1, Len(l.free) - 1) ELSE l.free
        nodes1 == IF index >= Len(l.nodes)
                  THEN Append(l.nodes, [value |-> v, prev |-> NoIdx, next |-> NoIdx])
                  ELSE [l.nodes EXCEPT ![index + 1].value = v]
        head1  == IF l.head = NoIdx THEN index ELSE l.head
        nodes2 == IF l.tail # NoIdx
                  THEN [[nodes1 EXCEPT ![l.tail + 1].next = index]
                            EXCEPT ![index + 1].prev = l.tail]
                  ELSE nodes1
    IN  [nodes |-> nodes2, head |-> head1, tail |-> index, free |-> free1]

\* remove(): [some, list, node]; some = FALSE is the None of nodes.get_mut(index)?
ListRemove(l, i) ==
    IF ~HasNode(l, i)
    THEN [some |-> FALSE, list |-> l, node |-> DefaultNode]
    ELSE LET node == NodeAt(l, i)
             n1 == [l.nodes EXCEPT ![i + 1] = DefaultNode]
             n2 == IF node.prev # NoIdx
                   THEN [n1 EXCEPT ![node.prev + 1].next = node.next] ELSE n1
             h  == IF node.prev # NoIdx THEN l.head ELSE node.next
             n3 == IF node.next # NoIdx
                   THEN [n2 EXCEPT ![node.next + 1].prev = node.prev] ELSE n2
             t  == IF node.next # NoIdx THEN l.tail ELSE node.prev
         IN  [some |-> TRUE,
              list |-> [nodes |-> n3, head |-> h, tail |-> t, free |-> Append(l.free, i)],
              node |-> node]

ListRemoveLast(l) ==
    IF l.tail = NoIdx
    THEN [some |-> FALSE, list |-> l, node |-> DefaultNode]
    ELSE LET r == ListRemove(l, l.tail)
         IN  IF ~r.some THEN r
             ELSE IF r.list.tail = l.tail
                  THEN [r EXCEPT !.list.tail = r.node.prev]
                  ELSE r

\* PathSegmentListIter: by-reference iteration from a handle, cut after fuel steps
RECURSIVE IterFrom(_, _, _)
IterFrom(l, i, fuel) ==
    IF i = NoIdx \/ ~HasNode(l, i) \/ fuel = 0 THEN <<>>
    ELSE <<NodeAt(l, i).value>> \o IterFrom(l, NodeAt(l, i).next, fuel - 1)

\* iter(): the segments that iteration yields; one more than the arena holds
\* means that the walk has entered a cycle and never ends
ListIter(l) == IterFrom(l, l.head, Len(l.nodes) + 1)

IterTerminates(l) == Len(ListIter(l)) <= Len(l.nodes)

\* PathSegmentListIntoIter: consuming iteration, each visited node is removed
RECURSIVE IntoIterFrom(_, _, _)
IntoIterFrom(l, i, fuel) ==
    IF i = NoIdx \/ fuel = 0 THEN <<>>
    ELSE LET r == ListRemove(l, i)
         IN  IF ~r.some THEN <<>>
             ELSE <<r.node.value>> \o IntoIterFrom(r.list, r.node.next, fuel - 1)

ListIntoIter(l) == IntoIterFrom(l, l.head, 2 * Len(l.nodes) + 2)

\* FromIterator: push every item onto a new list
RECURSIVE PushAll(_, _)
PushAll(l, items) ==
    IF items = <<>> THEN l ELSE PushAll(ListPush(l, Head(items)), Tail(items))

ListFromIter(items) == PushAll(ListNew, items)

\* impl PartialEq for PathSegmentList: equal len(), then pairwise until one ends
ListEq(x, y) ==
    LET fuel == Len(x.nodes) + Len(y.nodes) + Len(x.nodes) * Len(y.nodes) + 1
        ix == IterFrom(x, x.head, fuel)
        iy == IterFrom(y, y.head, fuel)
        m  == IF Len(ix) < Len(iy) THEN Len(ix) ELSE Len(iy)
    IN  /\ ListLen(x) = ListLen(y)
        /\ \A k \in 1..m : ix[k] = iy[k]

(***************************************************************************)
(* path.rs: Path                                                           *)
(***************************************************************************)
\* Path::new()
PathNew ==
    [prefix |-> "None", drive |-> "None", root |-> "None",
     segments |-> ListNew, is_dir |-> FALSE]

has_root(p) == p.root # "None"

is_root(p) == has_root(p) /\ ListLen(p.segments) = 0

\* is_root(), is_file() and is_dir() reach len() only behind has_root()
is_root_overflows(p) == has_root(p) /\ LenOverflows(p.segments)

is_file(p) == ~is_root(p) /\ ~p.is_dir

is_dir(p) == is_root(p) \/ p.is_dir

\* impl PartialEq for Path
PathEq(x, y) ==
    /\ x.prefix = y.prefix
    /\ x.drive = y.drive
    /\ x.root = y.root
    /\ ListEq(x.segments, y.segments)
    /\ is_dir(x) = is_dir(y)

\* ==: the comparison of the segment lists starts with len() of both
PathEq_overflows(x, y) ==
    /\ x.prefix = y.prefix
    /\ x.drive = y.drive
    /\ x.root = y.root
    /\ (LenOverflows(x.segments) \/ LenOverflows(y.segments))

\* components()
components(p) == ListIter(p.segments)

(***************************************************************************)
(* parser.rs                                                               *)
(***************************************************************************)
\* char::is_alphabetic, on ASCII
Letters ==
    {"a", "b", "c", "d", "e", "f", "g", "h", "i", "j", "k", "l", "m",
     "n", "o", "p", "q", "r", "s", "t", "u", "v", "w", "x", "y", "z",
     "A", "B", "C", "D", "E", "F", "G", "H", "I", "J", "K", "L", "M",
     "N", "O", "P", "Q", "R", "S", "T", "U", "V", "W", "X", "Y", "Z"}

RECURSIVE CursorNew(_)
CursorNew(chars) ==
    IF chars = <<>> THEN <<>>
    ELSE <<IF Head(chars) = "\\" THEN "/" ELSE Head(chars)>> \o CursorNew(Tail(chars))

Drop(c, k) == SubSeq(c, k + 1, Len(c))

parse_prefix(c) ==
    IF Len(c) >= 4 /\ c[1] = "/" /\ c[2] = "/" /\ c[3] = "." /\ c[4] = "/"
    THEN [prefix |-> "Device", rest |-> Drop(c, 4)]
    ELSE IF Len(c) >= 4 /\ c[1] = "/" /\ c[2] = "/" /\ c[3] = "?" /\ c[4] = "/"
    THEN [prefix |-> "ExtendedPath", rest |-> Drop(c, 4)]
    ELSE [prefix |-> "None", rest |-> c]

parse_drive(c) ==
    IF Len(c) >= 2 /\ c[2] = ":" /\ c[1] \in Letters
    THEN [drive |-> c[1], rest |-> Drop(c, 2)]
    ELSE [drive |-> "None", rest |-> c]

\* parse_root reading one separator as the root even when a second follows
parse_root_single(c, prefix) ==
    IF prefix = "ExtendedPath" /\ Len(c) >= 3 /\ c[1] = "U" /\ c[2] = "N" /\ c[3] = "C"
    THEN IF Len(c) >= 4 /\ c[4] = "/"
         THEN [ok |-> TRUE, root |-> "Unc", rest |-> Drop(c, 4)]
         ELSE [ok |-> FALSE, root |-> "None", rest |-> <<>>]
    ELSE IF Len(c) >= 1 /\ c[1] = "/"
    THEN [ok |-> TRUE, root |-> "Normal", rest |-> Drop(c, 1)]
    ELSE [ok |-> TRUE, root |-> "None", rest |-> c]

\* parse_root taking "UNC" as the root whatever follows it
parse_root_lax(c, prefix) ==
    IF prefix = "ExtendedPath" /\ Len(c) >= 3 /\ c[1] = "U" /\ c[2] = "N" /\ c[3] = "C"
    THEN [ok |-> TRUE, root |-> "Unc", rest |-> Drop(c, 4)]
    ELSE IF Len(c) >= 1 /\ c[1] = "/"
    THEN IF Len(c) >= 2 /\ c[2] = "/"
         THEN [ok |-> TRUE, root |-> "Unc", rest |-> Drop(c, 2)]
         ELSE [ok |-> TRUE, root |-> "Normal", rest |-> Drop(c, 1)]
    ELSE [ok |-> TRUE, root |-> "None", rest |-> c]

parse_root(c, prefix) ==
    IF prefix = "ExtendedPath" /\ Len(c) >= 3 /\ c[1] = "U" /\ c[2] = "N" /\ c[3] = "C"
    THEN IF Len(c) >= 4 /\ c[4] = "/"
         THEN [ok |-> TRUE, root |-> "Unc", rest |-> Drop(c, 4)]
         ELSE [ok |-> FALSE, root |-> "None", rest |-> <<>>]
    ELSE IF Len(c) >= 1 /\ c[1] = "/"
    THEN IF Len(c) >= 2 /\ c[2] = "/"
         THEN [ok |-> TRUE, root |-> "Unc", rest |-> Drop(c, 2)]
         ELSE [ok |-> TRUE, root |-> "Normal", rest |-> Drop(c, 1)]
    ELSE [ok |-> TRUE, root |-> "None", rest |-> c]

\* the inner loop of parse_segments: eat up to and including the next separator
RECURSIVE eat_segment(_, _)
eat_segment(c, segment) ==
    IF c = <<>> THEN [ok |-> TRUE, segment |-> segment, rest |-> <<>>]
    ELSE IF Head(c) = "\\" \/ Head(c) = "/"
    THEN IF segment = <<>>
         THEN [ok |-> FALSE, segment |-> segment, rest |-> Tail(c)]
         ELSE [ok |-> TRUE, segment |-> segment, rest |-> Tail(c)]
    ELSE eat_segment(Tail(c), Append(segment, Head(c)))

RECURSIVE parse_segments(_)
parse_segments(c) ==
    IF c = <<>> THEN [ok |-> TRUE, segs |-> <<>>]
    ELSE LET s == eat_segment(c, <<>>)
         IN  IF ~s.ok THEN [ok |-> FALSE, segs |-> <<>>]
             ELSE LET r == parse_segments(s.rest)
                  IN  IF ~r.ok THEN r
                      ELSE [ok |-> TRUE, segs |-> <<s.segment>> \o r.segs]

\* The directory flag of a parsed Path.  parser.rs as given builds the Path
\* without its is_dir field; the inference is taken from the specification:
\* the text ends with a separator, or the last segment is "." or "..".
parse_is_dir(c, segs) ==
    \/ Len(c) > 0 /\ c[Len(c)] = "/"
    \/ Len(segs) > 0 /\ segs[Len(segs)] \in {<<".">>, <<".", ".">>}

ErrEmptySegment == "path segments cannot be empty"
ErrUnc == "extended-length UNC paths must have a slash after the UNC prefix"

\* parse_path accepting what parse_segments rejects, as a Path without segments
parse_path_lenient(input) ==
    LET c  == CursorNew(input)
        px == parse_prefix(c)
        dr == parse_drive(px.rest)
        rt == parse_root(dr.rest, px.prefix)
        sg == parse_segments(rt.rest)
    IN  IF ~rt.ok THEN [ok |-> FALSE, err |-> ErrUnc, path |-> PathNew]
        ELSE [ok |-> TRUE, err |-> "",
              path |-> [prefix |-> px.prefix, drive |-> dr.drive, root |-> rt.root,
                        segments |-> ListFromIter(sg.segs),
                        is_dir |-> parse_is_dir(c, sg.segs)]]

\* parse_path / parse: [ok, err, path]
parse_path(input) ==
    LET c  == CursorNew(input)
        px == parse_prefix(c)
        dr == parse_drive(px.rest)
        rt == parse_root(dr.rest, px.prefix)
        sg == parse_segments(rt.rest)
    IN  IF ~rt.ok THEN [ok |-> FALSE, err |-> ErrUnc, path |-> PathNew]
        ELSE IF ~sg.ok THEN [ok |-> FALSE, err |-> ErrEmptySegment, path |-> PathNew]
        ELSE [ok |-> TRUE, err |-> "",
              path |-> [prefix |-> px.prefix, drive |-> dr.drive, root |-> rt.root,
                        segments |-> ListFromIter(sg.segs),
                        is_dir |-> parse_is_dir(c, sg.segs)]]

(***************************************************************************)
(* path.rs: parent, join, resolve                                          *)
(***************************************************************************)
\* parent(), after remove_last() returned Some: the "." of an emptied
\* relative Path and the directory flag
parent_of(p, list) ==
    [p EXCEPT !.segments = IF ~has_root(p) /\ ListLen(list) = 0
                           THEN ListPush(list, <<".">>)
                           ELSE list,
              !.is_dir = TRUE]

\* parent_result: the Option<Path> of parent(), r being what remove_last() gave
parent_result(p, r) ==
    IF ~r.some THEN [some |-> FALSE, path |-> p]
    ELSE [some |-> TRUE, path |-> parent_of(p, r.list)]

\* parent() where len() wraps: [some, path]
parent_unchecked(p) == parent_result(p, ListRemoveLast(p.segments))

\* parent(): len() of what remove_last() left, read when there is no root
parent_left_overflows(p, r) == r.some /\ ~has_root(p) /\ LenOverflows(r.list)

parent_overflows(p) == parent_left_overflows(p, ListRemoveLast(p.segments))

ErrOverflow == "attempt to subtract with overflow"

\* the program aborts in len()
Aborted(p) == [kind |-> "panic", err |-> ErrOverflow, path |-> p]

\* the Option<Path> of parent() as a record [kind, err, path]
OptionOut(r) ==
    [kind |-> IF r.some THEN "some" ELSE "none", err |-> "", path |-> r.path]

\* parent() under e: [kind, err, path]; kind is "some", "none" or "panic"
\* (len() overflowed and the build may have overflow checks)
parent(p, e) ==
    IF ~e.wrapped /\ parent_overflows(p) THEN Aborted(p)
    ELSE OptionOut(parent_unchecked(p))

ErrDrives == "cannot join two paths from different drives"

\* segments.head().is_some_and(|h| h.value.0 == ".")
HeadIsDot(l) == l.head # NoIdx /\ HasNode(l, l.head) /\ NodeAt(l, l.head).value = <<".">>

\* join(), other absolute: other replaces self, a bare drive imposes its letter
join_absolute(self, other) ==
    IF /\ self.drive # "None"
       /\ self.root = "None"
       /\ self.prefix = "None"
       /\ ListLen(self.segments) = 0
    THEN [other EXCEPT !.drive = self.drive]
    ELSE other

\* join() with the drive comparison left out of the match
join_drives_unchecked(self, other) == FALSE

\* join(), the match on the two drives: Err when both are set and differ
join_drives_differ(self, other) ==
    self.drive # "None" /\ other.drive # "None" /\ self.drive # other.drive

\* join(): self.is_file() && head of other is "."
join_strips(self, other) == is_file(self) /\ HeadIsDot(other.segments)

\* join(): path.segments.remove(0), arena slot 0 whatever the head is
join_strip_dot(l) == ListRemove(l, 0).list

\* join(): the directory flag of the result, other being what is left to append
join_is_dir(self, other) ==
    IF ListLen(other.segments) > 0 \/ is_root(other) THEN other.is_dir ELSE self.is_dir

\* join(), the tail: the directory flag and the pushes of what is left of other
join_append(self, result, other) ==
    [kind |-> "ok", err |-> "",
     path |-> [result EXCEPT
                 !.is_dir = join_is_dir(self, other),
                 !.segments = PushAll(result.segments, ListIntoIter(other.segments))]]

\* join(), the branch that takes self's parent and removes slot 0 of other
join_stripped(self, par, other) ==
    IF ~par.some
    THEN [kind |-> "panic", err |-> "file must have a parent", path |-> self]
    ELSE join_append(self, par.path,
                     [other EXCEPT !.segments = join_strip_dot(other.segments)])

\* join(), other relative and the drives compatible; result is the clone of
\* self with the drive it took from other
join_relative(self, result, other) ==
    IF join_strips(self, other)
    THEN join_stripped(self, parent_unchecked(result), other)
    ELSE join_append(self, result, other)

\* join() where len() wraps: [kind, err, path]; kind is "ok", "err" (Err
\* returned to the caller) or "panic" (the expect on parent() failed)
join_unchecked(self, other) ==
    IF has_root(other)
    THEN [kind |-> "ok", err |-> "", path |-> join_absolute(self, other)]
    ELSE IF join_drives_differ(self, other)
    THEN [kind |-> "err", err |-> ErrDrives, path |-> self]
    ELSE join_relative(self,
                       IF self.drive = "None" /\ other.drive # "None"
                       THEN [self EXCEPT !.drive = other.drive]
                       ELSE self,
                       other)

\* join(), other absolute: the bare-drive test ends with self.segments.len()
join_absolute_overflows(self) ==
    /\ self.drive # "None"
    /\ self.root = "None"
    /\ self.prefix = "None"
    /\ LenOverflows(self.segments)

\* join(), other relative and the drives compatible: self.is_file(), the
\* parent() of the strip branch, len() of what is left of other
join_relative_overflows(self, other) ==
    \/ is_root_overflows(self)
    \/ join_strips(self, other) /\ parent_overflows(self)
    \/ LenOverflows(IF join_strips(self, other)
                    THEN join_strip_dot(other.segments)
                    ELSE other.segments)

\* join() evaluates len() on a store whose free list is longer than its arena
join_overflows(self, other) ==
    IF has_root(other) THEN join_absolute_overflows(self)
    ELSE IF join_drives_differ(self, other) THEN FALSE
    ELSE join_relative_overflows(self, other)

\* join() under e: [kind, err, path]; kind is "ok", "err" or "panic"
join(self, other, e) ==
    IF ~e.wrapped /\ join_overflows(self, other) THEN Aborted(self)
    ELSE join_unchecked(self, other)

\* resolve::traverse, the work on one node: [kind, list]; kind is "ok" or
\* "panic" (Index out of bounds)
traverse_step(path, index) ==
    LET node  == NodeAt(path, index)
        prev  == node.prev
        next  == node.next
    IN  IF node.value = <<".">>
        THEN [kind |-> "ok", list |-> ListRemove(path, index).list]
        ELSE IF node.value = <<".", ".">>
        THEN IF prev = NoIdx THEN [kind |-> "ok", list |-> path]
             ELSE IF ~HasNode(path, prev) THEN [kind |-> "panic", list |-> path]
             ELSE LET prev_node == NodeAt(path, prev)
                      prev_prev == prev_node.prev
                  IN  IF prev_prev = NoIdx
                      THEN IF prev_node.value # <<".", ".">>
                           THEN [kind |-> "ok",
                                 list |-> ListRemove(ListRemove(path, prev).list,
                                                     index).list]
                           ELSE [kind |-> "ok", list |-> path]
                      ELSE IF ~HasNode(path, prev_prev)
                      THEN [kind |-> "panic", list |-> path]
                      ELSE LET l1 == [path EXCEPT !.nodes[prev_prev + 1].next = next]
                               l2 == IF next # NoIdx
                                     THEN IF HasNode(l1, next)
                                          THEN [l1 EXCEPT !.nodes[next + 1].prev = prev_prev]
                                          ELSE l1
                                     ELSE [l1 EXCEPT !.tail = prev_prev]
                           IN  IF next # NoIdx /\ ~HasNode(l1, next)
                               THEN [kind |-> "panic", list |-> path]
                               ELSE [kind |-> "ok",
                                     list |-> ListFree(ListFree(l2, prev), index)]
        ELSE [kind |-> "ok", list |-> path]

\* resolve::traverse: [kind, list]; kind is "ok", "panic" (Index out of bounds)
\* or "overflow" (the recursion does not end)
RECURSIVE traverse(_, _, _)
traverse(path, index, fuel) ==
    IF fuel = 0 THEN [kind |-> "overflow", list |-> path]
    ELSE IF ~HasNode(path, index) THEN [kind |-> "panic", list |-> path]
    ELSE LET step == traverse_step(path, index)
             next == NodeAt(path, index).next
         IN  IF step.kind # "ok" THEN step
             ELSE IF next = NoIdx THEN step
             ELSE traverse(step.list, next, fuel - 1)

TraverseFuel(l) == 3 * Len(l.nodes) + 3

ErrHome == "couldn't resolve home"

\* resolve() returning the traversed segments as a relative Path
resolve_traversed_unrooted(self, self1, tr) ==
    IF tr.kind # "ok" THEN [kind |-> tr.kind, err |-> "", path |-> self]
    ELSE [kind |-> "ok", err |-> "",
          path |-> [self1 EXCEPT !.segments = tr.list, !.root = "None"]]

\* resolve(), the end: tr is what traverse returned for self1
resolve_traversed(self, self1, tr) ==
    IF tr.kind # "ok" THEN [kind |-> tr.kind, err |-> "", path |-> self]
    ELSE [kind |-> "ok", err |-> "", path |-> [self1 EXCEPT !.segments = tr.list]]

\* resolve(), the call of traverse: from the head handle read at the start
resolve_traverse(self, self1, head_index) ==
    resolve_traversed(self, self1,
                      traverse(self1.segments, head_index,
                               TraverseFuel(self1.segments)))

\* resolve(), home expansion: jn is home.join(self without its "~")
resolve_joined(self, jn, head_index) ==
    IF jn.kind # "ok" THEN [kind |-> jn.kind, err |-> jn.err, path |-> self]
    ELSE resolve_traverse(self, jn.path, head_index)

\* resolve(), home expansion: hp is the parse of the home directory
resolve_home(self, e, hp, head_index) ==
    IF ~e.has_home THEN [kind |-> "err", err |-> ErrHome, path |-> self]
    ELSE IF ~hp.ok THEN [kind |-> "err", err |-> hp.err, path |-> self]
    ELSE resolve_joined(self,
                        join(hp.path,
                             [self EXCEPT !.segments =
                                 ListRemove(self.segments, head_index).list],
                             e),
                        head_index)

\* resolve() under e: [kind, err, path];
\* kind is "ok", "err", "panic" or "overflow"
resolve(self, e) ==
    IF self.segments.head = NoIdx THEN [kind |-> "ok", err |-> "", path |-> self]
    ELSE IF /\ e.std
            /\ HasNode(self.segments, self.segments.head)
            /\ NodeAt(self.segments, self.segments.head).value = <<"~">>
    THEN resolve_home(self, e, parse_path(e.home), self.segments.head)
    ELSE resolve_traverse(self, self, self.segments.head)

\* with_basename(), the truncation: r is what remove_last() gave for the
\* resolved self; a base that still has a segment becomes a directory
with_basename_cut(result, r) ==
    IF ~r.some THEN result
    ELSE [result EXCEPT !.segments = r.list,
                        !.is_dir = IF ListLen(r.list) > 0 THEN TRUE ELSE result.is_dir]

\* with_basename(), the end: rn is the resolve of the parsed name
with_basename_join(self, base, rn, e) ==
    IF rn.kind # "ok" THEN [kind |-> rn.kind, err |-> rn.err, path |-> self]
    ELSE join(base, rn.path, e)

\* with_basename(), the name: pp is Path::from_str(basename)
with_basename_named(self, base, pp, e) ==
    IF ~pp.ok THEN [kind |-> "err", err |-> pp.err, path |-> self]
    ELSE with_basename_join(self, base, resolve(pp.path, e), e)

\* with_basename(), after the resolve of self: len() of what remove_last() left
with_basename_resolved(self, result, r, basename, e) ==
    IF ~e.wrapped /\ r.some /\ LenOverflows(r.list) THEN Aborted(self)
    ELSE with_basename_named(self, with_basename_cut(result, r),
                             parse_path(basename), e)

\* with_basename(), the resolve of self: rs is self.clone().resolve()
with_basename_from(self, rs, basename, e) ==
    IF rs.kind # "ok" THEN [kind |-> rs.kind, err |-> rs.err, path |-> self]
    ELSE with_basename_resolved(self, rs.path, ListRemoveLast(rs.path.segments),
                                basename, e)

\* with_basename() under e: [kind, err, path]; kind is "ok", "err", "panic"
\* or "overflow"
with_basename(self, basename, e) ==
    with_basename_from(self, resolve(self, e), basename, e)

\* Option<&PathSegment> of the zipped iterators: <<x>> is Some(x), <<>> is None
Opt(s, i) == IF i <= Len(s) THEN <<s[i]>> ELSE <<>>

\* the loop of diff: the number of leading pairs (l, r) of the zip with l = r
RECURSIVE CommonLen(_, _, _)
CommonLen(s, t, i) ==
    IF i < Len(s) /\ i < Len(t) /\ s[i + 1] = t[i + 1] THEN CommonLen(s, t, i + 1) ELSE i

RECURSIVE Repeat(_, _)
Repeat(x, k) == IF k <= 0 THEN <<>> ELSE <<x>> \o Repeat(x, k - 1)

\* diff() up to the unzip with the test for a leading ".." left out
diff_head_dotdot(self, path) ==
    LET sa == ListIter(self.segments)
        sb == ListIter(path.segments)
        l  == Opt(sa, 1)
        r  == Opt(sb, 1)
    IN  IF self.prefix # path.prefix \/ self.drive # path.drive \/ self.root # path.root
        THEN "none"
        ELSE IF sa = <<>> /\ sb = <<>> THEN "empty"
        ELSE IF l # r /\ self.root = "None" THEN "none"
        ELSE IF ~IterTerminates(self.segments) \/ ~IterTerminates(path.segments)
        THEN "hang"
        ELSE "go"

\* diff() up to the unzip with the comparison of the roots left out
diff_head_rootless(self, path) ==
    LET sa == ListIter(self.segments)
        sb == ListIter(path.segments)
        l  == Opt(sa, 1)
        r  == Opt(sb, 1)
    IN  IF self.prefix # path.prefix \/ self.drive # path.drive
        THEN "none"
        ELSE IF sa = <<>> /\ sb = <<>> THEN "empty"
        ELSE IF l # r /\ self.root = "None" THEN "none"
        ELSE IF l # <<>> /\ r # <<>> /\ (l[1] = <<".", ".">> \/ r[1] = <<".", ".">>)
        THEN "none"
        ELSE IF ~IterTerminates(self.segments) \/ ~IterTerminates(path.segments)
        THEN "hang"
        ELSE "go"

\* diff() up to the unzip: "none" for a None return, "empty" when neither Path
\* has a segment, "hang" when the unzip meets an iteration that does not
\* end, "go" otherwise
diff_head(self, path) ==
    LET sa == ListIter(self.segments)
        sb == ListIter(path.segments)
        l  == Opt(sa, 1)
        r  == Opt(sb, 1)
    IN  IF self.prefix # path.prefix \/ self.drive # path.drive \/ self.root # path.root
        THEN "none"
        ELSE IF sa = <<>> /\ sb = <<>> THEN "empty"
        ELSE IF l # r /\ self.root = "None" THEN "none"
        ELSE IF l # <<>> /\ r # <<>> /\ (l[1] = <<".", ".">> \/ r[1] = <<".", ".">>)
        THEN "none"
        ELSE IF ~IterTerminates(self.segments) \/ ~IterTerminates(path.segments)
        THEN "hang"
        ELSE "go"

\* diff() after the unzip, counting every remaining segment of path
diff_tail_full_count(self, path) ==
    LET sa == ListIter(self.segments)
        sb == ListIter(path.segments)
        k  == CommonLen(sa, sb, 0)
        li == SubSeq(sa, k + 1, Len(sa))
        ri == SubSeq(sb, k + 1, Len(sb))
        par == parent_unchecked(path)
        dot == \/ is_file(path) /\ PathEq(self, par.path)
               \/ is_dir(self) /\ PathEq(self, path)
        segs == (IF dot THEN <<(<<".">>)>> ELSE <<>>) \o Repeat(<<".", ".">>, Len(ri)) \o li
    IN  IF is_file(path) /\ ~par.some
        THEN [kind |-> "panic", path |-> PathNew]
        ELSE [kind |-> "some",
              path |-> [prefix |-> "None", drive |-> self.drive, root |-> "None",
                        segments |-> ListFromIter(segs),
                        is_dir |-> IF dot THEN TRUE ELSE is_dir(self)]]

\* diff() after the unzip, where len() wraps: [kind, path]
diff_tail(self, path) ==
    LET sa == ListIter(self.segments)
        sb == ListIter(path.segments)
        k  == CommonLen(sa, sb, 0)
        li == SubSeq(sa, k + 1, Len(sa))
        ri == SubSeq(sb, k + 1, Len(sb))
        par == parent_unchecked(path)
        dot == \/ is_file(path) /\ PathEq(self, par.path)
               \/ is_dir(self) /\ PathEq(self, path)
        cnt == IF is_file(path) /\ Len(ri) # 0 THEN Len(ri) - 1 ELSE Len(ri)
        segs == (IF dot THEN <<(<<".">>)>> ELSE <<>>) \o Repeat(<<".", ".">>, cnt) \o li
    IN  IF is_file(path) /\ ~par.some
        THEN [kind |-> "panic", path |-> PathNew]
        ELSE [kind |-> "some",
              path |-> [prefix |-> "None", drive |-> self.drive, root |-> "None",
                        segments |-> ListFromIter(segs),
                        is_dir |-> IF dot THEN TRUE ELSE is_dir(self)]]

\* diff() where len() wraps: [kind, path]; kind is "some", "none", "panic"
\* (the expect on parent() failed) or "hang" (an iteration that does not end)
diff_unchecked(self, path) ==
    IF diff_head(self, path) = "go" THEN diff_tail(self, path)
    ELSE IF diff_head(self, path) = "empty"
    THEN [kind |-> "some",
          path |-> [prefix |-> "None", drive |-> self.drive, root |-> "None",
                    segments |-> ListNew, is_dir |-> FALSE]]
    ELSE [kind |-> diff_head(self, path), path |-> PathNew]

\* diff() after the unzip: self.is_dir(), path.is_file(), path.parent() and
\* the two comparisons evaluate len()
diff_tail_overflows(self, path, par) ==
    \/ is_root_overflows(self)
    \/ is_root_overflows(path)
    \/ is_file(path) /\ parent_overflows(path)
    \/ is_file(path) /\ par.some /\ PathEq_overflows(self, par.path)
    \/ /\ ~(is_file(path) /\ PathEq(self, par.path))
       /\ is_dir(self)
       /\ PathEq_overflows(self, path)

diff_overflows(self, path) ==
    /\ diff_head(self, path) = "go"
    /\ diff_tail_overflows(self, path, parent_unchecked(path))

\* diff() under e: [kind, err, path]
diff(self, path, e) ==
    IF ~e.wrapped /\ diff_overflows(self, path) THEN Aborted(PathNew)
    ELSE [kind |-> diff_unchecked(self, path).kind, err |-> "",
          path |-> diff_unchecked(self, path).path]

(***************************************************************************)
(* builder.rs: build_path                                                  *)
(***************************************************************************)
\* the segment loop of build_path: a separator after segment i when i < len - 1
RECURSIVE JoinSegs(_, _, _, _)
JoinSegs(segs, i, len, sep) ==
    IF segs = <<>> THEN <<>>
    ELSE Head(segs) \o (IF i < (len - 1) % UsizeModulus THEN <<sep>> ELSE <<>>)
                    \o JoinSegs(Tail(segs), i + 1, len, sep)

build_path(p, sep) ==
    LET px == IF p.prefix = "ExtendedPath" THEN <<sep, sep, "?", sep>>
              ELSE IF p.prefix = "Device" THEN <<sep, sep, ".", sep>>
              ELSE <<>>
        dr == IF p.drive # "None" THEN <<p.drive, ":">> ELSE <<>>
        rt == IF p.root = "Normal" THEN <<sep>>
              ELSE IF p.root = "Unc"
              THEN IF p.prefix = "ExtendedPath" THEN <<"U", "N", "C", sep>>
                   ELSE <<sep, sep>>
              ELSE <<>>
    IN  px \o dr \o rt \o JoinSegs(ListIntoIter(p.segments), 0, ListLen(p.segments), sep)

\* build_path evaluates segments.len(), and len - 1 once for every segment
\* the iteration yields
build_path_overflows(p) ==
    \/ LenOverflows(p.segments)
    \/ ListLen(p.segments) = 0 /\ ListIntoIter(p.segments) # <<>>

ErrCanonicalize == "couldn't canonicalize path"
ErrConvert == "hello"

\* the answers of the file system to canonicalize(), and of the conversion of
\* what it returned: the path as it is, the target of a link, or a failure
SymlinkAnswers == {"same", "link", "no_entry", "no_path"}

\* where the links of the file system lead
LinkTarget == parse_path(<<"/", "t">>).path

\* Path::traverse_symlinks with the answer ans: [kind, err, path]
traverse_symlinks(p, ans) ==
    IF ans = "no_entry" THEN [kind |-> "err", err |-> ErrCanonicalize, path |-> p]
    ELSE IF ans = "no_path" THEN [kind |-> "err", err |-> ErrConvert, path |-> p]
    ELSE [kind |-> "ok", err |-> "", path |-> IF ans = "link" THEN LinkTarget ELSE p]

\* the result of a build: the passes that ran, in order, and what build_string
\* returned (string is the String of an Ok)
Built(passes, kind, err, string) ==
    [passes |-> passes, kind |-> kind, err |-> err, string |-> string]

\* build_path at the end of a build, after the passes ran
build_render(passes, p, sep, e) ==
    IF ~e.wrapped /\ build_path_overflows(p)
    THEN Built(Append(passes, "render"), "panic", ErrOverflow, <<>>)
    ELSE Built(Append(passes, "render"), "ok", "", build_path(p, sep))

\* a pass returned r: the build goes on with r.path or returns the failure
build_after(passes, r, sep, e) ==
    IF r.kind # "ok" THEN Built(passes, r.kind, r.err, <<>>)
    ELSE build_render(passes, r.path, sep, e)

\* StringPathBuilder<Base>::build_string
build_string_base(p, sep, e) == build_render(<<>>, p, sep, e)

\* StringPathBuilder<WithResolver>::build_string
build_string_resolver(p, sep, e) == build_after(<<"resolve">>, resolve(p, e), sep, e)

\* StringPathBuilder<WithSymlinkTraversal>::build_string
build_string_symlinks(p, sep, e, ans) ==
    build_after(<<"traverse">>, traverse_symlinks(p, ans), sep, e)

\* resolve()?.traverse_symlinks()?, r being what resolve returned
build_both_resolved(r, sep, e, ans) ==
    IF r.kind # "ok" THEN Built(<<"resolve">>, r.kind, r.err, <<>>)
    ELSE build_after(<<"resolve", "traverse">>, traverse_symlinks(r.path, ans), sep, e)

\* a build that traverses the links before it resolves
build_string_both_swapped(p, sep, e, ans) ==
    IF traverse_symlinks(p, ans).kind # "ok"
    THEN Built(<<"traverse">>, "err", traverse_symlinks(p, ans).err, <<>>)
    ELSE build_after(<<"traverse", "resolve">>,
                     resolve(traverse_symlinks(p, ans).path, e), sep, e)

\* StringPathBuilder<WithResolverAndSymlinkTraversal>::build_string
build_string_both(p, sep, e, ans) == build_both_resolved(resolve(p, e), sep, e, ans)

(***************************************************************************)
(* Parser scenario: parse a text, render the Path, parse the rendering     *)
(***************************************************************************)
ParseTokens ==
    {<<"/">>, <<"\\">>, <<".">>, <<"?">>, <<":">>, <<"c">>, <<"U", "N", "C">>,
     <<"/", "/", "?", "/">>, <<"\\", "\\", ".", "\\">>}

RECURSIVE Flatten(_)
Flatten(ts) == IF ts = <<>> THEN <<>> ELSE Head(ts) \o Flatten(Tail(ts))

Texts == {Flatten(ts) : ts \in UNION {[1..k -> ParseTokens] : k \in 0..MaxTokens}}

NoParse == [ok |-> FALSE, err |-> "", path |-> PathNew]
NoRec == [op |-> "none"]
NoEnv == [std |-> FALSE, has_home |-> FALSE, home |-> <<>>, wrapped |-> FALSE]

InitParse ==
    /\ pc = "text"
    /\ text \in Texts
    /\ parsed = NoParse
    /\ rendered = <<>>
    /\ reparsed = NoParse
    /\ a = PathNew
    /\ b = PathNew
    /\ rec = NoRec
    /\ n = 0
    /\ env = NoEnv

DoParse ==
    /\ pc = "text"
    /\ parsed' = parse_path(text)
    /\ pc' = "parsed"
    /\ UNCHANGED <<text, rendered, reparsed, a, b, rec, n, env>>

\* Path::builder().build_string(): separator '/', no resolution
DoRender ==
    /\ pc = "parsed"
    /\ parsed.ok
    /\ rendered' = build_path(parsed.path, "/")
    /\ pc' = "rendered"
    /\ UNCHANGED <<text, parsed, reparsed, a, b, rec, n, env>>

DoReparse ==
    /\ pc = "rendered"
    /\ reparsed' = parse_path(rendered)
    /\ pc' = "reparsed"
    /\ UNCHANGED <<text, parsed, rendered, a, b, rec, n, env>>

NextParse == DoParse \/ DoRender \/ DoReparse

SpecParse == InitParse /\ [][NextParse]_vars

(***************************************************************************)
(* Path scenario: two parsed Paths, then join, parent, resolve and diff    *)
(***************************************************************************)
RECURSIVE SlashJoin(_)
SlashJoin(segs) ==
    IF segs = <<>> THEN <<>>
    ELSE IF Len(segs) = 1 THEN Head(segs)
    ELSE Head(segs) \o <<"/">> \o SlashJoin(Tail(segs))

SegSeqs(names, k) == UNION {[1..i -> names] : i \in 0..k}

Weight(x) == IF x = <<>> THEN 0 ELSE 1

\* the texts [prefix][drive][root]seg/seg/...[/] with at most `parts` parts,
\* a part being a prefix, a drive or a segment; roots and trails say whether
\* the root separator and a trailing separator are written
TextsOf(names, parts, prefixes, drives, roots, trails) ==
    UNION {IF Weight(px) + Weight(dr) + Len(sg) <= parts
           THEN {px \o dr \o rt \o SlashJoin(sg) \o t :
                    rt \in roots, t \in trails}
           ELSE {} :
           px \in prefixes, dr \in drives, sg \in SegSeqs(names, parts)}

ParsedOf(texts) == {parse_path(t).path : t \in {u \in texts : parse_path(u).ok}}

Device == <<"/", "/", ".", "/">>
DriveC == <<"c", ":">>
DriveD == <<"d", ":">>

OptSep == {<<>>, <<"/">>}

\* the std build with a home directory, the std build without one, the no_std
\* build.  Overflow checks depend on the build profile: a run is the same with
\* and without them until a len() overflows, and goes on after that only in a
\* build without them (wrapped)
StdHome == [std |-> TRUE, has_home |-> TRUE, home |-> <<"/", "h">>, wrapped |-> FALSE]
StdNoHome == [std |-> TRUE, has_home |-> FALSE, home |-> <<>>, wrapped |-> FALSE]
Envs == {NoEnv, StdNoHome, StdHome}

PairPaths ==
    ParsedOf(TextsOf({<<".">>, <<".", ".">>, <<"a">>, <<"b">>}, MaxParts,
                     {<<>>, Device}, {<<>>, DriveC, DriveD}, OptSep, OptSep))

\* Spec: every pair of parsed Paths, a few operations
InitPath ==
    /\ pc = "ops"
    /\ text = <<>>
    /\ parsed = NoParse
    /\ rendered = <<>>
    /\ reparsed = NoParse
    /\ a \in PairPaths
    /\ b \in PairPaths
    /\ rec = NoRec
    /\ n = MaxOps
    /\ env = StdHome

UnaryPaths ==
    ParsedOf(TextsOf({<<".">>, <<".", ".">>, <<"a">>, <<"~">>}, MaxUnaryParts,
                     {<<>>, Device}, {<<>>, DriveC}, OptSep, OptSep))

\* SpecUnary: one parsed Path with longer texts and the home marker, under
\* every environment; the argument starts as the empty Path
InitUnary ==
    /\ pc = "ops"
    /\ text = <<>>
    /\ parsed = NoParse
    /\ rendered = <<>>
    /\ reparsed = NoParse
    /\ a \in UnaryPaths
    /\ b = PathNew
    /\ rec = NoRec
    /\ n = MaxUnaryOps
    /\ env \in Envs

DeepPaths ==
    ParsedOf(TextsOf({<<".">>, <<".", ".">>, <<"a">>}, MaxDeepParts, {<<>>}, {<<>>}, {<<>>},
                     {<<>>}))

DeepArgs ==
    ParsedOf(TextsOf({<<".">>, <<"a">>}, MaxDeepArgParts, {<<>>}, {<<>>, DriveC}, OptSep,
                     {<<>>}))

\* SpecDeep: a relative Path with longer texts, a short argument, neither
\* text ending with a separator, longer runs of operations
InitDeep ==
    /\ pc = "ops"
    /\ text = <<>>
    /\ parsed = NoParse
    /\ rendered = <<>>
    /\ reparsed = NoParse
    /\ a \in DeepPaths
    /\ b \in DeepArgs
    /\ rec = NoRec
    /\ n = MaxDeepOps
    /\ env = StdHome

ParseVars == <<text, parsed, rendered, reparsed>>

\* after a panic or a stack overflow the program has stopped
After(kind) == IF kind \in {"panic", "overflow", "hang"} THEN "aborted" ELSE "ops"

\* the call on a with the argument other returned r = [kind, err, path]: a
\* Path that came back is the one in hand from now on
Returned(op, other, r) ==
    /\ rec' = [op |-> op, self |-> a, other |-> other, out |-> r]
    /\ a' = IF r.kind \in {"ok", "some"} THEN r.path ELSE a
    /\ pc' = After(r.kind)

\* the arguments a caller writes in place: Path::new() and the root "/"
Literals == {PathNew, parse_path(<<"/">>).path}

\* the build in which len() wraps
Wrapping(e) == [e EXCEPT !.wrapped = TRUE]

\* the outcomes [out, env] of a call that gives r under e and w under
\* Wrapping(e): r, and when r is the abort of an overflowing len() also w
Outcomes(e, r, w) ==
    IF r.kind = "panic" /\ r.err = ErrOverflow
    THEN {[out |-> r, env |-> e], [out |-> w, env |-> Wrapping(e)]}
    ELSE {[out |-> r, env |-> e]}

OpResolve ==
    /\ pc = "ops" /\ n > 0
    /\ \E o \in Outcomes(env, resolve(a, env), resolve(a, Wrapping(env))) :
           Returned("resolve", b, o.out) /\ env' = o.env
    /\ n' = n - 1
    /\ UNCHANGED <<b, ParseVars>>

OpParent ==
    /\ pc = "ops" /\ n > 0
    /\ \E o \in Outcomes(env, parent(a, env), parent(a, Wrapping(env))) :
           Returned("parent", b, o.out) /\ env' = o.env
    /\ n' = n - 1
    /\ UNCHANGED <<b, ParseVars>>

OpJoin ==
    /\ pc = "ops" /\ n > 0
    /\ \E o \in Outcomes(env, join(a, b, env), join(a, b, Wrapping(env))) :
           Returned("join", b, o.out) /\ env' = o.env
    /\ n' = n - 1
    /\ UNCHANGED <<b, ParseVars>>

OpJoinLiteral ==
    /\ pc = "ops" /\ n > 0
    /\ \E other \in Literals :
           \E o \in Outcomes(env, join(a, other, env), join(a, other, Wrapping(env))) :
               Returned("join", other, o.out) /\ env' = o.env
    /\ n' = n - 1
    /\ UNCHANGED <<b, ParseVars>>

\* Path::new().join(a): the Path in hand is the argument
OpJoinOnto ==
    /\ pc = "ops" /\ n > 0
    /\ \E o \in Outcomes(env, join(PathNew, a, env), join(PathNew, a, Wrapping(env))) :
           /\ rec' = [op |-> "join", self |-> PathNew, other |-> a, out |-> o.out]
           /\ a' = IF o.out.kind = "ok" THEN o.out.path ELSE a
           /\ pc' = After(o.out.kind)
           /\ env' = o.env
    /\ n' = n - 1
    /\ UNCHANGED <<b, ParseVars>>

OpDiff ==
    /\ pc = "ops" /\ n > 0
    /\ \E o \in Outcomes(env, diff(a, b, env), diff(a, b, Wrapping(env))) :
           /\ rec' = [op |-> "diff", self |-> a, other |-> b, out |-> o.out]
           /\ pc' = After(o.out.kind)
           /\ env' = o.env
    /\ n' = n - 1
    /\ UNCHANGED <<a, b, ParseVars>>

\* the caller passes the Path it has built as the argument of the next call
Swap ==
    /\ pc = "ops" /\ n > 0
    /\ rec.op # "swap"
    /\ a' = b
    /\ b' = a
    /\ rec' = [op |-> "swap", self |-> a, other |-> b,
               out |-> [kind |-> "ok", err |-> "", path |-> b]]
    /\ UNCHANGED <<pc, n, env, ParseVars>>

NextPath ==
    OpResolve \/ OpParent \/ OpJoin \/ OpJoinLiteral \/ OpJoinOnto \/ OpDiff \/ Swap

Spec == InitPath /\ [][NextPath]_vars

SpecUnary == InitUnary /\ [][NextPath]_vars

\* SpecDeep builds Paths and passes them on; diff builds nothing a later call
\* takes
NextDeep == OpResolve \/ OpParent \/ OpJoin \/ OpJoinLiteral \/ OpJoinOnto \/ Swap

SpecDeep == InitDeep /\ [][NextDeep]_vars

MaxChainOps == 3

\* SpecChain: a relative Path and a short argument as in SpecDeep, a short
\* chain of resolve and join, and diff against the argument
InitChain ==
    /\ pc = "ops"
    /\ text = <<>>
    /\ parsed = NoParse
    /\ rendered = <<>>
    /\ reparsed = NoParse
    /\ a \in DeepPaths
    /\ b \in DeepArgs
    /\ rec = NoRec
    /\ n = MaxChainOps
    /\ env = StdHome

NextChain == OpResolve \/ OpJoin \/ OpDiff

SpecChain == InitChain /\ [][NextChain]_vars

BasePaths ==
    ParsedOf(TextsOf({<<".", ".">>, <<"a">>}, MaxBaseParts, {<<>>}, {<<>>}, OptSep,
                     OptSep))

\* the names a caller passes to with_basename
BaseNames ==
    TextsOf({<<".">>, <<".", ".">>, <<"a">>, <<"b">>}, MaxNameParts, {<<>>}, {<<>>}, OptSep,
            OptSep)

\* SpecBase: a Path with up to four segments, then with_basename, resolve and
\* parent
InitBase ==
    /\ pc = "ops"
    /\ text = <<>>
    /\ parsed = NoParse
    /\ rendered = <<>>
    /\ reparsed = NoParse
    /\ a \in BasePaths
    /\ b = PathNew
    /\ rec = NoRec
    /\ n = MaxBaseOps
    /\ env = StdHome

\* a.with_basename(name); the record keeps the parse of the name as other
OpWithBasename ==
    /\ pc = "ops" /\ n > 0
    /\ \E name \in BaseNames :
           \E o \in Outcomes(env, with_basename(a, name, env),
                             with_basename(a, name, Wrapping(env))) :
               Returned("with_basename", parse_path(name).path, o.out) /\ env' = o.env
    /\ n' = n - 1
    /\ UNCHANGED <<b, ParseVars>>

NextBase == OpWithBasename \/ OpResolve \/ OpParent

SpecBase == InitBase /\ [][NextBase]_vars

(***************************************************************************)
(* Builder scenario: a builder on a parsed Path, its passes enabled in     *)
(* either order, then build_string                                         *)
(***************************************************************************)
Separators == {"/", "\\"}

\* the builder before build_string: the separator it holds and the passes
\* enabled so far, in the order of the calls
BuilderRec(path, sep, enabled) ==
    [op |-> "builder", self |-> path, other |-> PathNew,
     out |-> [kind |-> "none", err |-> "", path |-> path],
     separator |-> sep, enabled |-> enabled, answer |-> "same",
     built |-> Built(<<>>, "none", "", <<>>)]

\* SpecBuild: StringPathBuilder::new(a) under every environment
InitBuild ==
    /\ pc = "Base"
    /\ text = <<>>
    /\ parsed = NoParse
    /\ rendered = <<>>
    /\ reparsed = NoParse
    /\ a \in UnaryPaths
    /\ b = PathNew
    /\ rec = BuilderRec(a, "/", <<>>)
    /\ n = 1
    /\ env \in Envs

\* with_separator, offered by the Base builder only
WithSeparator ==
    /\ pc = "Base" /\ n > 0
    /\ \E sep \in Separators : rec' = [rec EXCEPT !.separator = sep]
    /\ n' = n - 1
    /\ UNCHANGED <<pc, a, b, env, ParseVars>>

\* a pass is enabled: the builder changes its type and keeps path and separator
Enable(pass, to) ==
    /\ pc' = to
    /\ rec' = [rec EXCEPT !.enabled = Append(rec.enabled, pass)]
    /\ UNCHANGED <<a, b, n, env, ParseVars>>

WithResolverBase == pc = "Base" /\ Enable("resolver", "WithResolver")

\* the builders with symlink traversal exist in a std build only
TraverseSymlinksBase ==
    pc = "Base" /\ env.std /\ Enable("symlinks", "WithSymlinkTraversal")

TraverseSymlinksResolver ==
    /\ pc = "WithResolver"
    /\ env.std
    /\ Enable("symlinks", "WithResolverAndSymlinkTraversal")

WithResolverSymlinks ==
    /\ pc = "WithSymlinkTraversal"
    /\ Enable("resolver", "WithResolverAndSymlinkTraversal")

\* build_string returned r, the file system having answered ans
BuiltWith(ans, r, e) ==
    /\ rec' = [rec EXCEPT !.op = "build", !.answer = ans, !.built = r]
    /\ rendered' = r.string
    /\ env' = e
    /\ pc' = "built"
    /\ UNCHANGED <<a, b, n, text, parsed, reparsed>>

BuildBase ==
    /\ pc = "Base"
    /\ \E o \in Outcomes(env, build_string_base(a, rec.separator, env),
                         build_string_base(a, rec.separator, Wrapping(env))) :
           BuiltWith("same", o.out, o.env)

BuildResolver ==
    /\ pc = "WithResolver"
    /\ \E o \in Outcomes(env, build_string_resolver(a, rec.separator, env),
                         build_string_resolver(a, rec.separator, Wrapping(env))) :
           BuiltWith("same", o.out, o.env)

BuildSymlinks ==
    /\ pc = "WithSymlinkTraversal"
    /\ \E ans \in SymlinkAnswers :
           \E o \in Outcomes(env, build_string_symlinks(a, rec.separator, env, ans),
                             build_string_symlinks(a, rec.separator,
                                                   Wrapping(env), ans)) :
               BuiltWith(ans, o.out, o.env)

BuildBoth ==
    /\ pc = "WithResolverAndSymlinkTraversal"
    /\ \E ans \in SymlinkAnswers :
           \E o \in Outcomes(env, build_string_both(a, rec.separator, env, ans),
                             build_string_both(a, rec.separator, Wrapping(env), ans)) :
               BuiltWith(ans, o.out, o.env)

NextBuild ==
    \/ WithSeparator
    \/ WithResolverBase
    \/ TraverseSymlinksBase
    \/ TraverseSymlinksResolver
    \/ WithResolverSymlinks
    \/ BuildBase
    \/ BuildResolver
    \/ BuildSymlinks
    \/ BuildBoth

SpecBuild == InitBuild /\ [][NextBuild]_vars

(***************************************************************************)
(* Store scenario: a PathSegmentList driven call by call, as the tests of  *)
(* packed_list.rs and the methods of Path drive it, next to the sequence   *)
(* of its live handles                                                     *)
(***************************************************************************)
StoreValues == {<<"a">>, <<".">>, <<".", ".">>}

MaxStoreItems == 3
MaxStoreOps == 5

\* push(): the handle it writes to, the last freed one or a new slot
push_index(l) == IF Len(l.free) > 0 THEN l.free[Len(l.free)] ELSE Len(l.nodes)

\* impl Index<usize>: [kind, node]; kind is "ok" or "panic" (Index out of bounds)
ListIndex(l, i) ==
    IF HasNode(l, i)
    THEN [kind |-> "ok", node |-> NodeAt(l, i)]
    ELSE [kind |-> "panic", node |-> DefaultNode]

\* a live element: the handle push() gave it and its segment
Live(h, v) == [handle |-> h, value |-> v]

\* the store and its live elements after push(v)
StorePushed(s, v) ==
    [list |-> ListPush(s.list, v),
     live |-> Append(s.live, Live(push_index(s.list), v))]

\* FromIterator next to its live elements
RECURSIVE StoreFrom(_, _)
StoreFrom(s, items) ==
    IF items = <<>> THEN s ELSE StoreFrom(StorePushed(s, Head(items)), Tail(items))

\* the live elements without those of the handles hs
RECURSIVE Without(_, _)
Without(live, hs) ==
    IF live = <<>> THEN <<>>
    ELSE (IF Head(live).handle \in hs THEN <<>> ELSE <<Head(live)>>)
             \o Without(Tail(live), hs)

LiveHandles(live) == {live[k].handle : k \in 1..Len(live)}

\* the handles a call has put on the free list of l0, l1 being the store after it
Released(l0, l1) == {l1.free[k] : k \in (Len(l0.free) + 1)..Len(l1.free)}

\* SpecStore: a store collected from a few segments, then a few calls
InitStore ==
    /\ pc = "store"
    /\ text = <<>>
    /\ parsed = NoParse
    /\ rendered = <<>>
    /\ reparsed = NoParse
    /\ \E items \in SegSeqs(StoreValues, MaxStoreItems) :
           LET s == StoreFrom([list |-> ListNew, live |-> <<>>], items)
           IN  a = s.list /\ b = s.live
    /\ rec = NoRec
    /\ n = MaxStoreOps
    /\ env = NoEnv

\* the call op(arg) on the store returned out and left list, whose live
\* elements are live
StoreCall(op, arg, out, list, live) ==
    /\ rec' = [op |-> op, self |-> a, other |-> arg, out |-> out]
    /\ a' = list
    /\ b' = live
    /\ n' = n - 1
    /\ UNCHANGED <<env, ParseVars>>

StorePush ==
    /\ pc = "store" /\ n > 0
    /\ \E v \in StoreValues :
           StoreCall("push", v, [kind |-> "ok"], ListPush(a, v),
                     Append(b, Live(push_index(a), v)))
    /\ pc' = pc

\* remove() with the handle of a live element
StoreRemove ==
    /\ pc = "store" /\ n > 0
    /\ \E h \in LiveHandles(b) :
           StoreCall("remove", h, ListRemove(a, h), ListRemove(a, h).list,
                     Without(b, {h}))
    /\ pc' = pc

StoreRemoveLast ==
    /\ pc = "store" /\ n > 0
    /\ StoreCall("remove_last", NoIdx, ListRemoveLast(a), ListRemoveLast(a).list,
                 IF ListRemoveLast(a).some THEN SubSeq(b, 1, Len(b) - 1) ELSE b)
    /\ pc' = pc

\* resolve(): traverse from the head handle; the elements it unlinks are
\* those whose handles it has put on the free list
StoreResolved(tr) ==
    /\ StoreCall("resolve", a.head, tr,
                 IF tr.kind = "ok" THEN tr.list ELSE a,
                 IF tr.kind = "ok" THEN Without(b, Released(a, tr.list)) ELSE b)
    /\ pc' = IF tr.kind = "ok" THEN pc ELSE "aborted"

StoreResolve ==
    /\ pc = "store" /\ n > 0
    /\ a.head # NoIdx
    /\ StoreResolved(traverse(a, a.head, TraverseFuel(a)))

\* the handles that are on the free list and belong to no live element
FreedHandles == {a.free[k] : k \in 1..Len(a.free)} \ LiveHandles(b)

\* remove() with a freed handle; the scenario ends with the caller's error
StoreRemoveFreed ==
    /\ pc = "store" /\ n > 0
    /\ \E h \in FreedHandles :
           StoreCall("remove_freed", h, ListRemove(a, h), ListRemove(a, h).list, b)
    /\ pc' = "misused"

\* store[handle] with a freed handle; the scenario ends with the caller's error
StoreIndexFreed ==
    /\ pc = "store" /\ n > 0
    /\ \E h \in FreedHandles :
           StoreCall("index_freed", h, ListIndex(a, h), a, b)
    /\ pc' = "misused"

NextStore ==
    \/ StorePush
    \/ StoreRemove
    \/ StoreRemoveLast
    \/ StoreResolve
    \/ StoreRemoveFreed
    \/ StoreIndexFreed

SpecStore == InitStore /\ [][NextStore]_vars

\* C1: every accepted text renders (separator '/', no resolution) to a text
\* that parses again to a Path equal to the first one.
C1_RoundTrip ==
    pc = "reparsed" => reparsed.ok /\ PathEq(reparsed.path, parsed.path)

\* C2: resolving the Path that a successful resolve returned succeeds and
\* returns a Path equal to it.
C2_ResolveIdempotent ==
    (rec.op = "resolve" /\ rec.out.kind = "ok") =>
        LET again == resolve(rec.out.path, env)
        IN  again.kind = "ok" /\ PathEq(again.path, rec.out.path)

\* C3: when a.diff(b) returns Some(d), b.join(d) succeeds and its resolve
\* equals a.resolve().
C3_DiffInverse ==
    (rec.op = "diff" /\ rec.out.kind = "some") =>
        LET j  == join(rec.other, rec.out.path, env)
            r1 == resolve(j.path, env)
            r2 == resolve(rec.self, env)
        IN  /\ j.kind = "ok"
            /\ r1.kind = "ok"
            /\ r2.kind = "ok"
            /\ PathEq(r1.path, r2.path)

\* the empty relative path: no prefix, no drive, no root, no segments
EmptyRelative(p) ==
    /\ p.prefix = "None"
    /\ p.drive = "None"
    /\ p.root = "None"
    /\ ListLen(p.segments) = 0
    /\ components(p) = <<>>

\* C4: joining any Path p onto the empty relative path succeeds and returns
\* a Path equal to p.
C4_JoinLeftIdentity ==
    (rec.op = "join" /\ EmptyRelative(rec.self)) =>
        rec.out.kind = "ok" /\ PathEq(rec.out.path, rec.other)

\* C5: joining the empty relative path onto any Path p succeeds and returns p
\* with prefix, drive, root, segments and directory-ness unchanged.
C5_JoinRightIdentity ==
    (rec.op = "join" /\ EmptyRelative(rec.other)) =>
        /\ rec.out.kind = "ok"
        /\ rec.out.path.prefix = rec.self.prefix
        /\ rec.out.path.drive = rec.self.drive
        /\ rec.out.path.root = rec.self.root
        /\ components(rec.out.path) = components(rec.self)
        /\ is_dir(rec.out.path) = is_dir(rec.self)
        /\ PathEq(rec.out.path, rec.self)

\* both Paths carry a drive letter and the letters differ
DrivesDiffer(p, q) == p.drive # "None" /\ q.drive # "None" /\ p.drive # q.drive

\* a bare drive: a drive letter, no prefix, no root, no segments
BareDrive(p) ==
    /\ p.drive # "None"
    /\ p.prefix = "None"
    /\ p.root = "None"
    /\ components(p) = <<>>

\* C6: join returns an error whenever both Paths carry a drive letter and the
\* letters differ, other being relative or absolute.
C6_JoinDrivesDiffer ==
    (rec.op = "join" /\ DrivesDiffer(rec.self, rec.other)) =>
        rec.out.kind = "err"

\* C6, other relative: join returns an error and no Path whenever both Paths
\* carry a drive letter, the letters differ and other has no root, self being
\* a bare drive or not.
C6_JoinDrivesDifferRelative ==
    (rec.op = "join" /\ DrivesDiffer(rec.self, rec.other)
                     /\ ~has_root(rec.other)) =>
        rec.out.kind = "err" /\ rec.out.err = ErrDrives /\ a = rec.self

\* a bare drive was joined with a relative Path of another drive
C6_BareDriveWitness ==
    /\ rec.op = "join"
    /\ DrivesDiffer(rec.self, rec.other)
    /\ ~has_root(rec.other)
    /\ BareDrive(rec.self)
    /\ components(rec.other) # <<>>
    /\ rec.out.kind = "err"

\* C7: when other is absolute, join succeeds with other unchanged, except that
\* a bare-drive self puts its drive letter in place of other's.
C7_JoinAbsolute ==
    (rec.op = "join" /\ has_root(rec.other)) =>
        /\ rec.out.kind = "ok"
        /\ rec.out.path = IF BareDrive(rec.self)
                          THEN [rec.other EXCEPT !.drive = rec.self.drive]
                          ELSE rec.other

\* iteration over the segments of both Paths of the last call ends
FiniteArgs ==
    IterTerminates(rec.self.segments) /\ IterTerminates(rec.other.segments)

\* the first segment of p is "."
StartsWithDot(p) == components(p) # <<>> /\ Head(components(p)) = <<".">>

\* C8: when self is a file with a parent and the first segment of a relative
\* other is ".", the segments of the joined Path are those of self.parent()
\* followed by those of other without its first, however other was built
\* (both Paths having a finite segment sequence).
C8_JoinDotSibling ==
    (/\ rec.op = "join"
     /\ rec.out.kind = "ok"
     /\ FiniteArgs
     /\ ~has_root(rec.other)
     /\ is_file(rec.self)
     /\ StartsWithDot(rec.other)
     /\ parent_unchecked(rec.self).some) =>
        components(rec.out.path) =
            components(parent_unchecked(rec.self).path) \o Tail(components(rec.other))

\* other has a segment left to append once join has dropped its first "."
Contributes(self, other) ==
    IF is_file(self) /\ StartsWithDot(other)
    THEN Len(components(other)) > 1
    ELSE Len(components(other)) > 0

\* C9: a successful join with a relative other gives a Path that is a
\* directory exactly as other is when other contributes a segment, and
\* exactly as self is otherwise.
C9_JoinIsDir ==
    (rec.op = "join" /\ rec.out.kind = "ok" /\ ~has_root(rec.other)) =>
        is_dir(rec.out.path) =
            IF Contributes(rec.self, rec.other)
            THEN is_dir(rec.other)
            ELSE is_dir(rec.self)

\* C9 with the root set aside: the same, except that a result that is a root
\* with no segments is a directory whatever self and other are.
C9_JoinIsDirRootAside ==
    (rec.op = "join" /\ rec.out.kind = "ok" /\ ~has_root(rec.other)) =>
        is_dir(rec.out.path) =
            IF has_root(rec.out.path) /\ components(rec.out.path) = <<>>
            THEN TRUE
            ELSE IF Contributes(rec.self, rec.other)
            THEN is_dir(rec.other)
            ELSE is_dir(rec.self)

Front(s) == SubSeq(s, 1, Len(s) - 1)

\* C10: parent() of a Path with a segment (and a finite segment sequence) is
\* Some(q): q has the same prefix, drive and root, the segments without the
\* last (the single "." when none is left and the Path has no root) and is a
\* directory; without a segment it is None.
C10_Parent ==
    (rec.op = "parent" /\ IterTerminates(rec.self.segments)) =>
        IF components(rec.self) # <<>>
        THEN /\ rec.out.kind = "some"
             /\ rec.out.path.prefix = rec.self.prefix
             /\ rec.out.path.drive = rec.self.drive
             /\ rec.out.path.root = rec.self.root
             /\ components(rec.out.path) =
                    IF Len(components(rec.self)) = 1 /\ ~has_root(rec.self)
                    THEN << <<".">> >>
                    ELSE Front(components(rec.self))
             /\ is_dir(rec.out.path)
        ELSE rec.out.kind = "none"

\* C11: when with_basename returns a Path for a relative name, its segments
\* are those of resolve(self) without the last one followed by those of
\* resolve(parse(name)), and iterating them ends.
C11_WithBasename ==
    (/\ rec.op = "with_basename"
     /\ rec.out.kind = "ok"
     /\ ~has_root(rec.other)
     /\ IterTerminates(rec.self.segments)) =>
        /\ IterTerminates(rec.out.path.segments)
        /\ components(rec.out.path) =
               Front(components(resolve(rec.self, Wrapping(env)).path))
                   \o components(resolve(rec.other, Wrapping(env)).path)

\* the number of leading ".." of a segment sequence
RECURSIVE LeadingDotDots(_)
LeadingDotDots(s) ==
    IF s # <<>> /\ Head(s) = <<".", ".">> THEN 1 + LeadingDotDots(Tail(s)) ELSE 0

\* C12: resolve of a relative Path whose first k >= 1 segments are all ".."
\* succeeds and the result starts with at least those k "..".
C12_ResolveKeepsDotDots ==
    (/\ rec.op = "resolve"
     /\ ~has_root(rec.self)
     /\ IterTerminates(rec.self.segments)
     /\ LeadingDotDots(components(rec.self)) >= 1) =>
        /\ rec.out.kind = "ok"
        /\ LeadingDotDots(components(rec.out.path))
               >= LeadingDotDots(components(rec.self))

\* prefix, drive and root of a Path
Frame(p) == <<p.prefix, p.drive, p.root>>

\* resolve() under e expands the first segment of p as the home marker
HomeExpanded(p, e) ==
    /\ e.std
    /\ HasNode(p.segments, p.segments.head)
    /\ NodeAt(p.segments, p.segments.head).value = <<"~">>

\* C13: a successful resolve returns a Path with the prefix, drive and root
\* of its argument, the home marker "~" included.
C13_ResolveFrame ==
    (rec.op = "resolve" /\ rec.out.kind = "ok") =>
        Frame(rec.out.path) = Frame(rec.self)

\* C13, home expansion aside: a successful resolve that does not expand a
\* home marker returns a Path with the prefix, drive and root of its argument.
C13_ResolveFrameNoHome ==
    (rec.op = "resolve" /\ rec.out.kind = "ok" /\ ~HomeExpanded(rec.self, env)) =>
        Frame(rec.out.path) = Frame(rec.self)

\* resolve changed the segments of a Path with a prefix, a drive and a root
C13_FrameWitness ==
    /\ rec.op = "resolve"
    /\ rec.out.kind = "ok"
    /\ rec.self.prefix # "None"
    /\ rec.self.drive # "None"
    /\ rec.self.root # "None"
    /\ components(rec.out.path) # components(rec.self)

\* C14: diff returns None whenever the two Paths differ in prefix, in drive
\* or in root, whatever their segments are.
C14_DiffIncomparable ==
    (rec.op = "diff" /\ Frame(rec.self) # Frame(rec.other)) =>
        rec.out.kind = "none"

\* diff returned None for two Paths with the same segments that differ in
\* the root only
C14_RootOnlyWitness ==
    /\ rec.op = "diff"
    /\ rec.self.prefix = rec.other.prefix
    /\ rec.self.drive = rec.other.drive
    /\ rec.self.root # rec.other.root
    /\ components(rec.self) # <<>>
    /\ components(rec.self) = components(rec.other)
    /\ rec.out.kind = "none"

\* the first segment of p as an Option: <<x>> or <<>>
First(p) == Opt(components(p), 1)

\* C15: for two Paths without a root, diff returns None whenever their first
\* segments differ (one of them may have none) and whenever the first segment
\* of either is "..".
C15_DiffFirstSegments ==
    (/\ rec.op = "diff"
     /\ ~has_root(rec.self)
     /\ ~has_root(rec.other)
     /\ \/ First(rec.self) # First(rec.other)
        \/ First(rec.self) = << <<".", ".">> >>
        \/ First(rec.other) = << <<".", ".">> >>) =>
        rec.out.kind = "none"

\* diff returned None for two comparable Paths that both start with ".."
C15_BothDotDotWitness ==
    /\ rec.op = "diff"
    /\ Frame(rec.self) = Frame(rec.other)
    /\ ~has_root(rec.self)
    /\ First(rec.self) = << <<".", ".">> >>
    /\ First(rec.other) = << <<".", ".">> >>
    /\ Len(components(rec.self)) > 1
    /\ rec.out.kind = "none"

\* the "." special case of diff as the code tests it: other is a file and
\* self equals its parent, or self is a directory equal to other
DotCase(self, other) ==
    \/ /\ is_file(other)
       /\ parent_unchecked(other).some
       /\ PathEq(self, parent_unchecked(other).path)
    \/ is_dir(self) /\ PathEq(self, other)

\* the segments of other after the common leading run of the two Paths
RestOf(other, self) ==
    SubSeq(components(other), CommonLen(components(self), components(other), 0) + 1,
           Len(components(other)))

\* the ".." steps of the general rule of diff
Ascents(self, other) ==
    IF is_file(other) /\ Len(RestOf(other, self)) # 0
    THEN Len(RestOf(other, self)) - 1
    ELSE Len(RestOf(other, self))

StatedDotCase(self, other) ==
    \/ /\ is_file(self)
       /\ parent_unchecked(other).some
       /\ PathEq(self, parent_unchecked(other).path)
    \/ is_dir(self) /\ PathEq(self, other)

\* C17: whenever self is a file and equals the parent of other, or self is a
\* directory equal to other (two equal roots without segments included), diff
\* returns a directory whose only segment is ".".
C17_DiffDot ==
    (rec.op = "diff" /\ StatedDotCase(rec.self, rec.other)) =>
        /\ rec.out.kind = "some"
        /\ components(rec.out.path) = << <<".">> >>
        /\ is_dir(rec.out.path)

\* a segment as the data model has it: not empty, no separator in it
ValidSegment(s) == s # <<>> /\ \A i \in 1..Len(s) : s[i] \notin {"/", "\\"}

ValidSegments(segs) == \A i \in 1..Len(segs) : ValidSegment(segs[i])

\* C18: every segment that iterating or rendering yields, of the Path in hand
\* and of the Path the last call returned, is a non-empty string without a
\* separator.
C18_SegmentInvariant ==
    /\ ValidSegments(components(a))
    /\ ValidSegments(ListIntoIter(a.segments))
    /\ rec.op \in {"join", "parent", "with_basename", "resolve", "diff"}
           /\ rec.out.kind \in {"ok", "some"} =>
               /\ ValidSegments(components(rec.out.path))
               /\ ValidSegments(ListIntoIter(rec.out.path.segments))

\* C19: join returns a Path or an error to its caller for every pair of
\* Paths; it never aborts the program.
C19_JoinNeverAborts ==
    rec.op = "join" => rec.out.kind \in {"ok", "err"}

\* what parse_prefix, parse_drive and parse_root leave of the cursor
AfterRoot(t) ==
    parse_root(parse_drive(parse_prefix(CursorNew(t)).rest).rest,
               parse_prefix(CursorNew(t)).prefix)

\* the characters of the text t that follow its prefix, drive and root
Remainder(t) == SubSeq(t, Len(t) - Len(AfterRoot(t).rest) + 1, Len(t))

IsSeparator(ch) == ch = "/" \/ ch = "\\"

\* r starts with a separator or has two separators next to each other
HasEmptySegment(r) ==
    \/ r # <<>> /\ IsSeparator(r[1])
    \/ \E i \in 1..(Len(r) - 1) : IsSeparator(r[i]) /\ IsSeparator(r[i + 1])

\* C20: parse fails with "path segments cannot be empty" exactly when what
\* follows the prefix, drive and root starts with a separator or has two
\* adjacent separators, '/' and '\' alike; one trailing separator after a
\* non-empty segment is accepted.
C20_EmptySegments ==
    pc = "parsed" =>
        /\ (~parsed.ok /\ parsed.err = ErrEmptySegment)
               <=> (AfterRoot(text).ok /\ HasEmptySegment(Remainder(text)))
        /\ (/\ AfterRoot(text).ok
            /\ Len(Remainder(text)) >= 2
            /\ IsSeparator(Remainder(text)[Len(Remainder(text))])
            /\ ~HasEmptySegment(Remainder(text))) =>
               /\ parsed.ok
               /\ Len(components(parsed.path)) >= 1

\* a text with a segment followed by two adjacent separators, a backslash
\* among them, was rejected
C20_AdjacentWitness ==
    /\ pc = "parsed"
    /\ ~parsed.ok
    /\ parsed.err = ErrEmptySegment
    /\ Remainder(text) # <<>>
    /\ ~IsSeparator(Remainder(text)[1])
    /\ \E i \in 1..(Len(Remainder(text)) - 1) :
           Remainder(text)[i] = "\\" /\ IsSeparator(Remainder(text)[i + 1])

\* a text ending with one separator after a segment was accepted
C20_TrailingWitness ==
    /\ pc = "parsed"
    /\ parsed.ok
    /\ Len(Remainder(text)) >= 2
    /\ Remainder(text)[Len(Remainder(text))] = "\\"

\* the text t starts with the prefix written with the mark m ("?" or ".")
HasPrefixMark(t, m) ==
    /\ Len(t) >= 4
    /\ IsSeparator(t[1])
    /\ IsSeparator(t[2])
    /\ t[3] = m
    /\ IsSeparator(t[4])

\* the characters that follow the first k of t, a drive "x:" after them skipped
PastDrive(t, k) ==
    IF Len(t) >= k + 2 /\ t[k + 1] \in Letters /\ t[k + 2] = ":"
    THEN SubSeq(t, k + 3, Len(t))
    ELSE SubSeq(t, k + 1, Len(t))

StartsWithUNC(r) == Len(r) >= 3 /\ r[1] = "U" /\ r[2] = "N" /\ r[3] = "C"

\* C21: with the ExtendedPath prefix and, after the optional drive, the letters
\* "UNC": parse fails with the UNC error when no separator follows them (end
\* of input or another character), and a Path it returns has the root Unc
\* when one does.
C21_ExtendedUnc ==
    (/\ pc = "parsed"
     /\ HasPrefixMark(text, "?")
     /\ StartsWithUNC(PastDrive(text, 4))) =>
        IF Len(PastDrive(text, 4)) >= 4 /\ IsSeparator(PastDrive(text, 4)[4])
        THEN /\ parsed.err # ErrUnc
             /\ parsed.ok => /\ parsed.path.root = "Unc"
                             /\ parsed.path.prefix = "ExtendedPath"
        ELSE ~parsed.ok /\ parsed.err = ErrUnc

\* an extended text with "UNC" followed by a character that is no separator
\* was rejected
C21_MalformedWitness ==
    /\ pc = "parsed"
    /\ HasPrefixMark(text, "?")
    /\ StartsWithUNC(PastDrive(text, 4))
    /\ Len(PastDrive(text, 4)) >= 4
    /\ ~IsSeparator(PastDrive(text, 4)[4])
    /\ ~parsed.ok
    /\ parsed.err = ErrUnc

\* the length of the prefix the text t starts with
PrefixLen(t) == IF HasPrefixMark(t, "?") \/ HasPrefixMark(t, ".") THEN 4 ELSE 0

\* what follows the optional prefix and drive of t
PastPrefixAndDrive(t) == PastDrive(t, PrefixLen(t))

\* the extended "UNC" form applies to t
ExtendedUncForm(t) == HasPrefixMark(t, "?") /\ StartsWithUNC(PastPrefixAndDrive(t))

\* the number of leading separators of r that make the root: 2, 1 or 0
RootLen(r) ==
    IF Len(r) >= 2 /\ IsSeparator(r[1]) /\ IsSeparator(r[2]) THEN 2
    ELSE IF Len(r) >= 1 /\ IsSeparator(r[1]) THEN 1
    ELSE 0

RootOfLen(k) == IF k = 2 THEN "Unc" ELSE IF k = 1 THEN "Normal" ELSE "None"

DeviceThenSegment(t) ==
    /\ HasPrefixMark(t, ".")
    /\ Len(t) >= 5
    /\ ~IsSeparator(t[5])
    /\ PastDrive(t, 4) = SubSeq(t, 5, Len(t))
    /\ ~HasEmptySegment(SubSeq(t, 5, Len(t)))

\* C23: a text made of the Device prefix followed directly by a segment, with
\* no drive, parses to prefix Device, no drive and root Normal.
C23_DeviceRooted ==
    (pc = "parsed" /\ DeviceThenSegment(text)) =>
        /\ parsed.ok
        /\ parsed.path.prefix = "Device"
        /\ parsed.path.drive = "None"
        /\ parsed.path.root = "Normal"

\* the directory rule for the Path p parsed from the text t: a root without
\* segments, a text that ends with a separator, a last segment "." or ".."
StatedDir(t, p) ==
    \/ has_root(p) /\ components(p) = <<>>
    \/ t # <<>> /\ IsSeparator(t[Len(t)])
    \/ /\ components(p) # <<>>
       /\ components(p)[Len(components(p))] \in {<<".">>, <<".", ".">>}

\* C24 for the Paths parse returns: is_dir() follows the directory rule and
\* is_file() is its opposite.
C24_ParseInference ==
    (pc = "parsed" /\ parsed.ok) =>
        /\ is_dir(parsed.path) = StatedDir(text, parsed.path)
        /\ is_file(parsed.path) = ~StatedDir(text, parsed.path)

\* is_dir() and is_file() of p return under e: no len() they read overflows,
\* or the build is known to wrap
Decides(p, e) == e.wrapped \/ ~is_root_overflows(p)

\* C24: a parsed Path is a directory exactly by the directory rule and a file
\* otherwise, and for every Path, parsed or built, is_dir() and is_file()
\* answer and exactly one of them holds.
C24_DirectoryInference ==
    /\ C24_ParseInference
    /\ pc = "ops" => /\ Decides(a, env)
                     /\ is_dir(a) # is_file(a)

\* x occurs in the sequence s
Among(x, s) == \E i \in 1..Len(s) : s[i] = x

\* the passes of a build with the passes in enabled switched on, in the order
\* in which they have to run
PassOrder(enabled) ==
    (IF Among("resolver", enabled) THEN <<"resolve">> ELSE <<>>)
        \o (IF Among("symlinks", enabled) THEN <<"traverse">> ELSE <<>>)
        \o <<"render">>

IsPrefix(s, t) == Len(s) <= Len(t) /\ s = SubSeq(t, 1, Len(s))

\* C25: in whichever order the passes were enabled, build runs resolution,
\* then symlink traversal, then renders; a failed resolution is the result of
\* the build and nothing runs after it; the rendering uses the separator the
\* builder was given.
C25_BuilderPassOrder ==
    pc = "built" =>
        /\ IsPrefix(rec.built.passes, PassOrder(rec.enabled))
        /\ rec.built.kind = "ok" <=> rec.built.passes = PassOrder(rec.enabled)
        /\ (Among("resolver", rec.enabled) /\ resolve(rec.self, env).kind # "ok") =>
               /\ rec.built.passes = <<"resolve">>
               /\ rec.built.kind = resolve(rec.self, env).kind
               /\ rec.built.err = resolve(rec.self, env).err
               /\ rendered = <<>>
        /\ \A i \in 1..Len(rendered) :
               rendered[i] \in Separators => rendered[i] = rec.separator

\* a builder given the backslash, with symlink traversal enabled before
\* resolution, ran both passes and rendered a text with the backslash
C25_SymlinksFirstWitness ==
    /\ pc = "built"
    /\ rec.enabled = <<"symlinks", "resolver">>
    /\ rec.separator = "\\"
    /\ rec.built.passes = <<"resolve", "traverse", "render">>
    /\ rec.answer = "same"
    /\ components(rec.self) # components(resolve(rec.self, env).path)
    /\ Among("\\", rendered)

\* the handles that forward iteration visits, cut as ListIter is
RECURSIVE HandlesFrom(_, _, _)
HandlesFrom(l, i, fuel) ==
    IF i = NoIdx \/ ~HasNode(l, i) \/ fuel = 0 THEN <<>>
    ELSE <<i>> \o HandlesFrom(l, NodeAt(l, i).next, fuel - 1)

Visited(l) == HandlesFrom(l, l.head, Len(l.nodes) + 1)

LiveSegments(live) == [k \in 1..Len(live) |-> live[k].value]

LiveOrder(live) == [k \in 1..Len(live) |-> live[k].handle]

\* C26: after any run of push, remove of a live handle, remove_last and
\* resolve, forward iteration over the store ends and yields exactly the live
\* segments in order (a push appends, a removal deletes that element), it
\* visits the live handles and no other, and a push leaves the order of the
\* handles that were there as it was.
C26_StoreRefinesSequence ==
    pc = "store" =>
        /\ IterTerminates(a)
        /\ ListIter(a) = LiveSegments(b)
        /\ Visited(a) = LiveOrder(b)
        /\ rec.op = "push" => Visited(a) = Append(Visited(rec.self), push_index(rec.self))

\* C27: after any run of push, remove of a live handle, remove_last and
\* resolve, len() (arena slots minus free-list size) does not underflow and
\* equals the number of segments that forward iteration visits.
C27_LenIsLiveCount ==
    pc = "store" =>
        /\ ~LenOverflows(a)
        /\ ListLen(a) = Len(Visited(a))

\* the store as the call found it: head, tail, free list and live sequence
Untouched(before, after) ==
    /\ after.head = before.head
    /\ after.tail = before.tail
    /\ after.free = before.free
    /\ ListIter(after) = ListIter(before)

\* C28: remove() with a handle that was already removed, and indexing the
\* store with a freed handle, are reported as an out-of-bounds failure (remove
\* gives no node, the index aborts) and leave head, tail, the free list and
\* the live sequence unchanged.
C28_FreedHandleReported ==
    /\ rec.op = "remove_freed" => ~rec.out.some /\ Untouched(rec.self, a)
    /\ rec.op = "index_freed" => rec.out.kind = "panic" /\ Untouched(rec.self, a)

Dot == <<".">>
DotDot == <<".", ".">>

\* the segments of s other than '.' and '..', in order
RECURSIVE Ordinary(_)
Ordinary(s) ==
    IF s = <<>> THEN <<>>
    ELSE (IF Head(s) \in {Dot, DotDot} THEN <<>> ELSE <<Head(s)>>) \o Ordinary(Tail(s))

\* the ordinary segments of s that no later '..' cancels: kept is what
\* stands before s, a '..' takes the last of kept when that is no '..'
RECURSIVE Reduced(_, _)
Reduced(kept, s) ==
    IF s = <<>> THEN kept
    ELSE IF Head(s) = Dot THEN Reduced(kept, Tail(s))
    ELSE IF Head(s) = DotDot /\ kept # <<>> /\ kept[Len(kept)] # DotDot
    THEN Reduced(SubSeq(kept, 1, Len(kept) - 1), Tail(s))
    ELSE Reduced(Append(kept, Head(s)), Tail(s))

Survivors(s) == Ordinary(Reduced(<<>>, s))

\* no '.', and no '..' directly after a segment other than '..'
Collapsed(s) ==
    /\ \A k \in 1..Len(s) : s[k] # Dot
    /\ \A k \in 2..Len(s) : s[k] = DotDot => s[k - 1] = DotDot

\* C29: home expansion aside, the segments of a resolved Path hold no '.'
\* and no '..' directly after a segment other than '..', and the segments
\* that are neither '.' nor '..' and that no following '..' cancels are
\* there in their order.
C29_ResolvePostcondition ==
    (/\ rec.op = "resolve"
     /\ rec.out.kind = "ok"
     /\ ~HomeExpanded(rec.self, env)) =>
        /\ Collapsed(components(rec.out.path))
        /\ Ordinary(components(rec.out.path)) = Survivors(components(rec.self))

\* C30: diff never aborts: for every pair of Paths it returns Some or None,
\* and the other.parent() that must succeed is evaluated only for an other
\* that is a file with at least one segment.
C30_DiffNeverAborts ==
    rec.op = "diff" =>
        /\ rec.out.kind \in {"some", "none"}
        /\ (diff_head(rec.self, rec.other) = "go" /\ is_file(rec.other)) =>
               components(rec.other) # <<>>

====
